---- MODULE Spec2Model ----
(***************************************************************************)
(* Model of server/scripts/simple_generate.py: the duration resolution of  *)
(* generate(), the text heuristics it falls back on, and the process-wide  *)
(* handler cache of get_handlers().                                        *)
(*                                                                         *)
(* Texts are sequences of one-character strings, so that the regular       *)
(* expressions of the source are modelled by what they match, character by *)
(* character.  Python floats that occur are either integral or rationals   *)
(* with denominator 47 (words / 2.35); they are modelled exactly, as       *)
(* integer numerators over a fixed denominator (see estimated below).      *)
(***************************************************************************)
EXTENDS Integers, Sequences, FiniteSets, TLC

VARIABLES
    \* ---- module globals of simple_generate.py
    _handler,             \* "None" or "AceStepHandler"
    _llm_handler,         \* "None" or "LLMHandler"
    _lora_initialized,
    _llm_init_attempted,
    service_ready,        \* _handler.initialize_service() has completed
    llm_initialized,      \* the attribute _llm_handler.llm_initialized
    calls,                \* how often each one-time setup step has been run
    \* ---- one call of generate(): position, arguments, locals, outcome
    pc,
    req,
    input_lyrics,
    resolved_duration_seconds,
    duration_source,
    lm_initialized,
    estimated,            \* the local of the pre-pipeline heuristic branch
    params,               \* the GenerationParams handed to generate_music
    source_at_call,       \* duration_source when generate_music was called
    result,               \* the dict generate() returned
    \* ---- an observer's note of one earlier completed request
    remembered,
    \* ---- direct calls of the two pure text functions
    arg_prompt,
    arg_lyrics,
    arg_instrumental,
    hint_text,
    hint_out,
    est_hint,             \* the local  hint  of _estimate_duration_seconds
    est_out,
    \* ---- one run of preprocess_dataset.py
    pre_pc,
    pre_json,             \* args.json
    pre_counts,           \* labeled_count and total_count
    pre_stdout,           \* the lines written to stdout so far
    pre_exit              \* how the run ended and its exit status

gvars == <<_handler, _llm_handler, _lora_initialized, _llm_init_attempted,
           service_ready, llm_initialized, calls>>
cvars == <<pc, req, input_lyrics, resolved_duration_seconds, duration_source,
           lm_initialized, estimated, params, source_at_call, result>>
evars == <<arg_prompt, arg_lyrics, arg_instrumental, hint_text, hint_out, est_hint, est_out>>
pvars == <<pre_pc, pre_json, pre_counts, pre_stdout, pre_exit>>
vars == <<gvars, cvars, remembered, evars, pvars>>

-----------------------------------------------------------------------------
(* Characters and character classes of Python's re module (ASCII part).    *)

\* Python's None, where the other values of the variable are integers.
None == -1

LowerLetters == <<"a","b","c","d","e","f","g","h","i","j","k","l","m",
                  "n","o","p","q","r","s","t","u","v","w","x","y","z">>
UpperLetters == <<"A","B","C","D","E","F","G","H","I","J","K","L","M",
                  "N","O","P","Q","R","S","T","U","V","W","X","Y","Z">>
DigitChars == <<"0","1","2","3","4","5","6","7","8","9">>

Range(s) == {s[i] : i \in 1..Len(s)}

Digits == Range(DigitChars)
Uppers == Range(UpperLetters)
Letters == Range(LowerLetters) \cup Uppers
\* \s
SpaceChars == {" ", "\n", "\t", "\r", "\f"}
\* \w
WordChars == Letters \cup Digits \cup {"_"}
\* [A-Za-z0-9']
LyricWordChars == Letters \cup Digits \cup {"'"}

IsDigit(c) == c \in Digits
IsSpace(c) == c \in SpaceChars
IsWordCh(c) == c \in WordChars
IsLyricWordCh(c) == c \in LyricWordChars

\* int() of one digit
DigitVal(c) == (CHOOSE i \in 1..10 : DigitChars[i] = c) - 1

\* str.lower() on one character
LowerCh(c) ==
    IF c \in Uppers
    THEN LowerLetters[CHOOSE i \in 1..26 : UpperLetters[i] = c]
    ELSE c

\* str.lower()
Lower(t) == [i \in 1..Len(t) |-> LowerCh(t[i])]

\* The character at position i (1-based), "" outside the text.
Ch(t, i) == IF i \in 1..Len(t) THEN t[i] ELSE ""

\* \b between positions i-1 and i
BoundaryAt(t, i) == IsWordCh(Ch(t, i - 1)) # IsWordCh(Ch(t, i))

\* The literal w occurs in t at position i.
LiteralAt(t, i, w) == \A k \in 1..Len(w) : Ch(t, i + k - 1) = w[k]

\* Python's  w in t  for strings.
Contains(t, w) == \E i \in 1..(Len(t) - Len(w) + 1) : LiteralAt(t, i, w)

\* \s* followed by a non-space: the position after the maximal run of spaces.
SkipSpaces(t, i) ==
    CHOOSE j \in i..(Len(t) + 1) :
        /\ ~IsSpace(Ch(t, j))
        /\ \A k \in i..(j - 1) : IsSpace(Ch(t, k))

SetMin(S) == CHOOSE x \in S : \A y \in S : x <= y

\* (?:u1|u2|...)\b at position i: the end (exclusive) of the first alternative
\* that matches and is followed by a word boundary, 0 when there is none.
UnitEnd(t, i, units) ==
    LET ok == {k \in 1..Len(units) :
                  /\ LiteralAt(t, i, units[k])
                  /\ BoundaryAt(t, i + Len(units[k]))}
    IN  IF ok = {} THEN 0 ELSE i + Len(units[SetMin(ok)])

\* m|min|mins|minute|minutes
MinuteUnits == << <<"m">>, <<"m", "i", "n">>, <<"m", "i", "n", "s">>,
                  <<"m", "i", "n", "u", "t", "e">>,
                  <<"m", "i", "n", "u", "t", "e", "s">> >>
\* s|sec|secs|second|seconds
SecondUnits == << <<"s">>, <<"s", "e", "c">>, <<"s", "e", "c", "s">>,
                  <<"s", "e", "c", "o", "n", "d">>,
                  <<"s", "e", "c", "o", "n", "d", "s">> >>
\* verse|chorus|bridge|hook|pre-chorus|intro|outro|refrain
SectionLabels == << <<"v", "e", "r", "s", "e">>,
                    <<"c", "h", "o", "r", "u", "s">>,
                    <<"b", "r", "i", "d", "g", "e">>,
                    <<"h", "o", "o", "k">>,
                    <<"p", "r", "e", "-", "c", "h", "o", "r", "u", "s">>,
                    <<"i", "n", "t", "r", "o">>,
                    <<"o", "u", "t", "r", "o">>,
                    <<"r", "e", "f", "r", "a", "i", "n">> >>
\* jingle, sting, bumper, snippet, short intro, short outro
ShortKeywords == { <<"j", "i", "n", "g", "l", "e">>,
                   <<"s", "t", "i", "n", "g">>,
                   <<"b", "u", "m", "p", "e", "r">>,
                   <<"s", "n", "i", "p", "p", "e", "t">>,
                   <<"s", "h", "o", "r", "t", " ", "i", "n", "t", "r", "o">>,
                   <<"s", "h", "o", "r", "t", " ", "o", "u", "t", "r", "o">> }
\* epic, cinematic, anthem, extended, progressive, suite, full length, long build
LongKeywords == { <<"e", "p", "i", "c">>,
                  <<"c", "i", "n", "e", "m", "a", "t", "i", "c">>,
                  <<"a", "n", "t", "h", "e", "m">>,
                  <<"e", "x", "t", "e", "n", "d", "e", "d">>,
                  <<"p", "r", "o", "g", "r", "e", "s", "s", "i", "v", "e">>,
                  <<"s", "u", "i", "t", "e">>,
                  <<"f", "u", "l", "l", " ", "l", "e", "n", "g", "t", "h">>,
                  <<"l", "o", "n", "g", " ", "b", "u", "i", "l", "d">> }
LoopKeyword == <<"l", "o", "o", "p">>

\* A regex match: start, end (exclusive) and the seconds it denotes.
NoMatch == [start |-> 0, end |-> 0, val |-> 0]

\* \d{lo,hi} at position i, greedy: the number of digits taken.  What follows
\* the digits in every pattern is never a digit, so no shorter run can match
\* where the longest fails: 0 when fewer than lo digits stand at i.
DigitRun(t, i, lo, hi) ==
    IF ~IsDigit(Ch(t, i)) THEN 0
    ELSE LET ns == {n \in lo..hi : \A k \in 0..(n - 1) : IsDigit(Ch(t, i + k))}
         IN  IF ns = {} THEN 0 ELSE CHOOSE n \in ns : \A m \in ns : m <= n

\* int() of the n digits at position i (n <= 3)
IntAt(t, i, n) ==
    IF n = 1 THEN DigitVal(t[i])
    ELSE IF n = 2 THEN DigitVal(t[i]) * 10 + DigitVal(t[i + 1])
    ELSE DigitVal(t[i]) * 100 + DigitVal(t[i + 1]) * 10 + DigitVal(t[i + 2])

-----------------------------------------------------------------------------
(* The four regular expressions, each as "the match that starts at i".     *)

\* Every operator below takes what the pattern has matched so far as a
\* parameter and matches the rest.

\* The rest of mm:ss after n minute digits at i.
MmSsAfter(t, i, n) ==
    IF /\ n > 0
       /\ BoundaryAt(t, i)
       /\ Ch(t, i + n) = ":"
       /\ Ch(t, i + n + 1) \in {"0", "1", "2", "3", "4", "5"}
       /\ IsDigit(Ch(t, i + n + 2))
       /\ BoundaryAt(t, i + n + 3)
    THEN [start |-> i, end |-> i + n + 3,
          val |-> IntAt(t, i, n) * 60 + IntAt(t, i + n + 1, 2)]
    ELSE NoMatch

\* \b(\d{1,2}):([0-5]\d)\b
MmSsAt(t, i) == MmSsAfter(t, i, DigitRun(t, i, 1, 2))

\* A number with its unit: where it ends (exclusive; 0: no match) and int()
\* of its digits.
NoPart == [end |-> 0, val |-> 0]

UnitAfter(t, j, n, e) == IF e = 0 THEN NoPart ELSE [end |-> e, val |-> IntAt(t, j, n)]

NumberThenUnit(t, j, n, units) ==
    IF n = 0 THEN NoPart
    ELSE UnitAfter(t, j, n, UnitEnd(t, SkipSpaces(t, j + n), units))

\* (\d{lo,hi})\s*(?:units)\b at position j
NumberUnitAt(t, j, lo, hi, units) == NumberThenUnit(t, j, DigitRun(t, j, lo, hi), units)

\* int(match.group(1)) * 60 + (int(match.group(2)) if match.group(2) else 0)
WithSeconds(i, mm, ss) ==
    IF ss.end > 0
    THEN [start |-> i, end |-> ss.end, val |-> mm.val * 60 + ss.val]
    ELSE [start |-> i, end |-> mm.end, val |-> mm.val * 60 + 0]

\* The optional group (?:\s*(\d{1,2})\s*(?:s|sec|secs|second|seconds)\b)?
\* after the minutes part mm.
MinutesThen(t, i, mm) ==
    IF mm.end = 0 THEN NoMatch
    ELSE WithSeconds(i, mm, NumberUnitAt(t, SkipSpaces(t, mm.end), 1, 2, SecondUnits))

\* \b(\d{1,2})\s*(?:m|min|mins|minute|minutes)\b
\*     (?:\s*(\d{1,2})\s*(?:s|sec|secs|second|seconds)\b)?
MinutesAt(t, i) ==
    IF BoundaryAt(t, i)
    THEN MinutesThen(t, i, NumberUnitAt(t, i, 1, 2, MinuteUnits))
    ELSE NoMatch

SecondsThen(i, ss) ==
    IF ss.end = 0 THEN NoMatch ELSE [start |-> i, end |-> ss.end, val |-> ss.val]

\* \b(\d{2,3})\s*(?:s|sec|secs|second|seconds)\b
SecondsAt(t, i) ==
    IF BoundaryAt(t, i)
    THEN SecondsThen(i, NumberUnitAt(t, i, 2, 3, SecondUnits))
    ELSE NoMatch

\* [^\]]*\] : up to the first "]" among the positions close.
SectionClose(i, close) ==
    IF close = {} THEN NoMatch ELSE [start |-> i, end |-> SetMin(close) + 1, val |-> 0]

\* The label (one of labels, indices into SectionLabels) after the "[" at j.
SectionLabel(t, i, j, labels) ==
    IF labels = {} THEN NoMatch
    ELSE SectionClose(i, {p \in (j + 1 + Len(SectionLabels[SetMin(labels)]))..Len(t) :
                             t[p] = "]"})

\* \[(?:verse|...) at j, letters compared as re.IGNORECASE does
SectionOpen(t, i, j) ==
    IF Ch(t, j) = "["
    THEN SectionLabel(t, i, j,
                      {k \in 1..Len(SectionLabels) :
                          \A c \in 1..Len(SectionLabels[k]) :
                              LowerCh(Ch(t, j + c)) = SectionLabels[k][c]})
    ELSE NoMatch

\* ^\s*\[(?:verse|chorus|bridge|hook|pre-chorus|intro|outro|refrain)[^\]]*\]
\* with re.IGNORECASE | re.MULTILINE; val is not used.
SectionAt(t, i) ==
    IF i = 1 \/ Ch(t, i - 1) = "\n"
    THEN SectionOpen(t, i, SkipSpaces(t, i))
    ELSE NoMatch

MatchAt(pattern, t, i) ==
    CASE pattern = "mm:ss"   -> MmSsAt(t, i)
      [] pattern = "minutes" -> MinutesAt(t, i)
      [] pattern = "seconds" -> SecondsAt(t, i)
      [] pattern = "section" -> SectionAt(t, i)

RECURSIVE FindFrom(_, _, _)

\* The leftmost of the matches found, then the scan from where it ended.
Leftmost(pattern, t, found) ==
    IF found = {} THEN <<>>
    ELSE LET m == CHOOSE x \in found : \A y \in found : x.start <= y.start
         IN  <<m>> \o FindFrom(pattern, t, m.end)

\* re.finditer / re.findall: the leftmost match at or after pos, then the
\* scan goes on where that match ended (no match is empty).
FindFrom(pattern, t, pos) ==
    Leftmost(pattern, t, {MatchAt(pattern, t, i) : i \in pos..Len(t)} \ {NoMatch})

FindIter(pattern, t) == FindFrom(pattern, t, 1)

-----
(* _extract_duration_hint_seconds                                          *)

\* 10 <= seconds <= 600
InHintRange(seconds) == 10 <= seconds /\ seconds <= 600

\* Mutant of FirstInRange: the range test of the loop is dropped.
FirstMatchAnyRange(matches) ==
    IF matches = <<>> THEN None ELSE matches[1].val

\* One  for match in re.finditer(...)  loop: the value of the first match that
\* passes the range test (the loop returns there), None when the loop ends.
FirstInRange(matches) ==
    LET ks == {k \in 1..Len(matches) : InHintRange(matches[k].val)}
    IN  IF ks = {} THEN None ELSE matches[SetMin(ks)].val

\* The value a loop returned, else what the code after the loop gives.
OrElse(returned, rest) == IF returned # None THEN returned ELSE rest

\* The three loops over text_l, in the order of the source.
HintLoops(text_l) ==
    OrElse(FirstInRange(FindIter("mm:ss", text_l)),
           OrElse(FirstInRange(FindIter("minutes", text_l)),
                  OrElse(FirstInRange(FindIter("seconds", text_l)), None)))

_extract_duration_hint_seconds(text) ==
    IF text = <<>> THEN None ELSE HintLoops(Lower(text))

-----------------------------------------------------------------------------
(* _estimate_duration_seconds                                              *)

Max(a, b) == IF a >= b THEN a ELSE b
Min(a, b) == IF a <= b THEN a ELSE b

\* Python's round() of the rational num / den (den > 0): to the nearest
\* integer, a tie to the even one.
PyRound(num, den) ==
    LET q == num \div den
        r == num % den
    IN  IF 2 * r < den THEN q
        ELSE IF 2 * r > den THEN q + 1
        ELSE IF q % 2 = 0 THEN q ELSE q + 1

\* len(re.findall(r"[A-Za-z0-9']+", lyrics_text)): the maximal runs.
LyricWords(lyrics_text) ==
    Cardinality({i \in 1..Len(lyrics_text) :
                    /\ IsLyricWordCh(lyrics_text[i])
                    /\ ~IsLyricWordCh(Ch(lyrics_text, i - 1))})

SectionMarkers(lyrics_text) == Len(FindIter("section", lyrics_text))

\* The float  estimated  is held exactly as  numerator / EstDen : the only
\* non-integral term is lyric_words / 2.35 = lyric_words * 100 / 235.
EstDen == 235

\* lines 250-254
BaseEstimate(lyric_words, section_markers, instrumental) ==
    IF lyric_words > 0
    THEN lyric_words * 100 + 18 * EstDen + (section_markers * 4) * EstDen
    ELSE IF instrumental THEN 95 * EstDen ELSE 75 * EstDen

\* Mutant of KeywordAdjust: every keyword found adjusts the estimate.
KeywordAdjustStacking(est, prompt_l) ==
    est - 20 * EstDen * Cardinality({k \in ShortKeywords : Contains(prompt_l, k)})
        + 30 * EstDen * Cardinality({k \in LongKeywords : Contains(prompt_l, k)})

\* lines 256-259
KeywordAdjust(est, prompt_l) ==
    LET short == IF \E k \in ShortKeywords : Contains(prompt_l, k)
                 THEN est - 20 * EstDen ELSE est
    IN  IF \E k \in LongKeywords : Contains(prompt_l, k)
        THEN short + 30 * EstDen ELSE short

\* Mutant of LoopCap: the cap does not look at the lyric word count.
LoopCapAnyLyrics(est, prompt_l, lyric_words) ==
    IF Contains(prompt_l, LoopKeyword) THEN Min(est, 60 * EstDen) ELSE est

\* lines 260-261
LoopCap(est, prompt_l, lyric_words) ==
    IF Contains(prompt_l, LoopKeyword) /\ lyric_words = 0
    THEN Min(est, 60 * EstDen)
    ELSE est

\* Mutant of HintResult: the hint is clamped but not rounded.
HintResultUnrounded(hint) == Max(10, Min(600, hint))

\* line 237
HintResult(hint) == Max(10, Min(600, PyRound(hint, 5) * 5))

\* Mutant of HeuristicResult: the estimate is rounded but not clamped.
HeuristicResultUnclamped(est) == PyRound(est, EstDen * 5) * 5

\* lines 263-264
HeuristicResult(est) == Max(30, Min(240, PyRound(est, EstDen * 5) * 5))

\* lines 239-264: the estimate from the word count when no hint was found
WordCountEstimate(prompt_l, lyric_words, section_markers, instrumental) ==
    HeuristicResult(
        LoopCap(KeywordAdjust(BaseEstimate(lyric_words, section_markers, instrumental),
                              prompt_l),
                prompt_l, lyric_words))

\* lines 236-264, hint being the value of line 235
EstimateGiven(hint, prompt, lyrics, instrumental) ==
    IF hint # None THEN HintResult(hint)
    ELSE WordCountEstimate(Lower(prompt), LyricWords(lyrics), SectionMarkers(lyrics),
                           instrumental)

_estimate_duration_seconds(prompt, lyrics, instrumental) ==
    EstimateGiven(_extract_duration_hint_seconds(prompt \o <<"\n">> \o lyrics),
                  prompt, lyrics, instrumental)

-----------------------------------------------------------------------------
(* get_handlers: the process-wide handler cache and its one-time setup.    *)

\* What the ACE-Step calls made by get_handlers() past line 268 can do:
\* AceStepHandler() raises, initialize_service returns or raises; the LoRA
\* auto-load finds nothing to load, loads, or load_lora raises; the language
\* model is skipped by policy, initializes, reports failure (ok = False), or
\* raises.
Envs == [service : {"ok", "raise", "ctor_raise"},
         lora : {"none", "loaded", "raise"},
         llm : {"skipped", "ok", "failed", "raise"}]

NoCalls == [initialize_service |-> 0, lora_autoload |-> 0, llm_initialize |-> 0]

\* The module globals, the two attributes of the handler objects they hold,
\* and the count of the setup steps run so far.
Globals ==
    [handler |-> _handler, ready |-> service_ready, lora |-> _lora_initialized,
     llm_handler |-> _llm_handler, attempted |-> _llm_init_attempted,
     llm_ok |-> llm_initialized, calls |-> calls]

\* Mutant of HandlersCached: the cache counts only when both handlers are set.
HandlersCachedWhenBoth(handler, llm_handler) ==
    handler # "None" /\ llm_handler # "None"

\* line 268, negated: the setup of lines 269-284 is skipped.
HandlersCached(handler, llm_handler) == handler # "None"

\* lines 275-281: _handler is assigned before initialize_service is called.
AfterService(env, g) ==
    [g EXCEPT !.handler = "AceStepHandler",
              !.ready = (env.service = "ok"),
              !.calls.initialize_service = @ + 1]

\* line 282: _load_lora_from_config, a no-op once _lora_initialized is set.
AfterLora(g) ==
    IF g.lora THEN g
    ELSE [g EXCEPT !.lora = TRUE, !.calls.lora_autoload = @ + 1]

\* line 284: _initialize_llm_if_configured on the handler g holds, a no-op
\* once _llm_init_attempted is set; llm_handler.initialize is not called when
\* the policy skips the language model.
AfterLlmInit(env, g) ==
    IF g.attempted THEN g
    ELSE [g EXCEPT !.attempted = TRUE,
                   !.llm_ok = (env.llm = "ok"),
                   !.calls.llm_initialize = @ + (IF env.llm = "skipped" THEN 0 ELSE 1)]

\* lines 283-284: a new LLMHandler, not initialized, then its initialization.
AfterLlm(env, g) ==
    AfterLlmInit(env, [g EXCEPT !.llm_handler = "LLMHandler", !.llm_ok = FALSE])

\* The globals after the setup of lines 269-284 ran on the globals g, and
\* whether it raised.  Each assignment of the source happens before the call
\* that may raise after it.
FirstGetHandlers(env, g) ==
    IF env.service = "ctor_raise"
    THEN [globals |-> g, raised |-> TRUE]
    ELSE IF env.service = "raise"
    THEN [globals |-> AfterService(env, g), raised |-> TRUE]
    ELSE IF env.lora = "raise" /\ ~g.lora
    THEN [globals |-> AfterLora(AfterService(env, g)), raised |-> TRUE]
    ELSE [globals |-> AfterLlm(env, AfterLora(AfterService(env, g))),
          raised |-> (env.llm = "raise" /\ ~g.attempted)]

-----------------------------------------------------------------------------
(* generate: the duration resolution around the generate_music call.       *)

\* Values of params.cot_duration after generate_music: None (or no such
\* attribute), a float, or a string.
CotNone == [type |-> "NoneType", num |-> 0, text |-> <<>>]
CotFloat(v) == [type |-> "float", num |-> v, text |-> <<>>]
CotStr(t) == [type |-> "str", num |-> 0, text |-> t]

\* Python truthiness of a cot_duration value
Truthy(c) ==
    CASE c.type = "NoneType" -> FALSE
      [] c.type = "float"    -> c.num # 0
      [] c.type = "str"      -> c.text # <<>>

\* float(c): [ok, val]; ok = FALSE is the ValueError of a string that is not
\* a number (here: not a run of digits).
FloatOf(c) ==
    IF c.type = "float" THEN [ok |-> TRUE, val |-> c.num]
    ELSE IF c.text # <<>> /\ Len(c.text) <= 3
            /\ \A i \in 1..Len(c.text) : IsDigit(c.text[i])
    THEN [ok |-> TRUE, val |-> IntAt(c.text, 1, Len(c.text))]
    ELSE [ok |-> FALSE, val |-> 0]

\* Mutant of HasAudio: the test is  path is not None .
HasAudioNotNone(path) == path # "None"

\* bool(x) of an audio path argument: None and "" are false.
HasAudio(path) == path \notin {"None", ""}

\* Mutant of InputLyrics: the lyrics are kept for instrumental requests.
InputLyricsKept(lyrics, instrumental) == lyrics

\* line 344
InputLyrics(lyrics, instrumental) ==
    IF lyrics # <<>> /\ ~instrumental THEN lyrics ELSE <<>>

\* line 348
LmInitialized(llm_handler, llm_flag) == llm_handler # "None" /\ llm_flag

\* lines 346-347: the float -1.0 stands for "unspecified"; estimated is the
\* local of line 360, None while it is unassigned.
InitialDuration(duration) ==
    [seconds |-> IF duration > 0 THEN duration ELSE -1,
     source |-> IF duration > 0 THEN "user" ELSE "auto",
     estimated |-> None]

\* lines 360-362
Heuristic(e) == [seconds |-> e, source |-> "heuristic", estimated |-> e]

\* Mutant of ResolveBefore: the language model is asked before the audio
\* context.
ResolveBeforeLmFirst(d, reference_audio, src_audio, lm_init, prompt, lyrics_in, instrumental) ==
    IF d.seconds <= 0
    THEN IF lm_init
         THEN [d EXCEPT !.source = "lm_cot"]
         ELSE IF HasAudio(reference_audio) \/ HasAudio(src_audio)
         THEN [d EXCEPT !.source = "audio_inferred"]
         ELSE Heuristic(_estimate_duration_seconds(prompt, lyrics_in, instrumental))
    ELSE d

\* lines 350-366, d being the value of lines 346-347
ResolveBefore(d, reference_audio, src_audio, lm_init, prompt, lyrics_in, instrumental) ==
    IF d.seconds <= 0
    THEN IF HasAudio(reference_audio) \/ HasAudio(src_audio)
         THEN [d EXCEPT !.source = "audio_inferred"]
         ELSE IF lm_init
         THEN [d EXCEPT !.source = "lm_cot"]
         ELSE Heuristic(_estimate_duration_seconds(prompt, lyrics_in, instrumental))
    ELSE d

\* Mutant of LateOverride: the chain-of-thought duration is adopted whether
\* or not the duration was still unresolved.
LateOverrideUnguarded(seconds, source, cot) ==
    IF Truthy(cot) /\ FloatOf(cot).ok /\ FloatOf(cot).val > 0
    THEN [seconds |-> FloatOf(cot).val, source |-> "lm_cot"]
    ELSE [seconds |-> seconds, source |-> source]

\* lines 436-443
LateOverride(seconds, source, cot) ==
    IF seconds <= 0 /\ Truthy(cot) /\ FloatOf(cot).ok /\ FloatOf(cot).val > 0
    THEN [seconds |-> FloatOf(cot).val, source |-> "lm_cot"]
    ELSE [seconds |-> seconds, source |-> source]

\* Mutant of FinalFallback: the estimate is used, the source is not relabelled.
FinalFallbackKeepsSource(seconds, source, prompt, lyrics_in, instrumental) ==
    IF seconds <= 0
    THEN [seconds |-> _estimate_duration_seconds(prompt, lyrics_in, instrumental),
          source |-> source]
    ELSE [seconds |-> seconds, source |-> source]

\* Mutant of FinalFallback: there is no final fallback.
FinalFallbackMissing(seconds, source, prompt, lyrics_in, instrumental) ==
    [seconds |-> seconds, source |-> source]

\* lines 446-448
FinalFallback(seconds, source, prompt, lyrics_in, instrumental) ==
    IF seconds <= 0
    THEN [seconds |-> _estimate_duration_seconds(prompt, lyrics_in, instrumental),
          source |-> "heuristic"]
    ELSE [seconds |-> seconds, source |-> source]

NoReq == [prompt |-> <<>>, lyrics |-> <<>>, instrumental |-> FALSE, duration |-> 0,
          reference_audio |-> "None", src_audio |-> "None"]
NoParams == [caption |-> <<>>, lyrics |-> <<>>, instrumental |-> FALSE, duration |-> 0,
             reference_audio |-> "None", src_audio |-> "None", cot_duration |-> CotNone]
NoResult == [success |-> FALSE, resolved_duration_seconds |-> 0,
             duration_source |-> "", lm_initialized |-> FALSE]
NoNote == [taken |-> FALSE, req |-> NoReq, lm |-> FALSE, cot |-> CotNone, result |-> NoResult]

\* generate(...) is called (the process is single-threaded: no call is running).
GenerateCall(r) ==
    /\ pc \in {"idle", "returned", "raised"}
    /\ pc' = "get_handlers"
    /\ req' = r
    /\ input_lyrics' = <<>>
    /\ resolved_duration_seconds' = 0
    /\ duration_source' = ""
    /\ lm_initialized' = FALSE
    /\ estimated' = None
    /\ params' = NoParams
    /\ source_at_call' = ""
    /\ result' = NoResult
    /\ UNCHANGED <<gvars, remembered, evars, pvars>>

\* line 337: handler, llm_handler = get_handlers()
GetHandlers ==
    /\ pc = "get_handlers"
    /\ \/ /\ HandlersCached(_handler, _llm_handler)
          /\ pc' = "resolve"
          /\ UNCHANGED gvars
       \/ /\ ~HandlersCached(_handler, _llm_handler)
          /\ \E env \in Envs :
                LET out == FirstGetHandlers(env, Globals)
                IN  /\ _handler' = out.globals.handler
                    /\ service_ready' = out.globals.ready
                    /\ _lora_initialized' = out.globals.lora
                    /\ _llm_handler' = out.globals.llm_handler
                    /\ _llm_init_attempted' = out.globals.attempted
                    /\ llm_initialized' = out.globals.llm_ok
                    /\ calls' = out.globals.calls
                    /\ pc' = IF out.raised THEN "raised" ELSE "resolve"
    /\ UNCHANGED <<req, input_lyrics, resolved_duration_seconds, duration_source,
                   lm_initialized, estimated, params, source_at_call, result,
                   remembered, evars, pvars>>

\* lines 340-423: the duration is resolved, params is built, generate_music
\* is entered.
Resolve ==
    /\ pc = "resolve"
    /\ LET lyr == InputLyrics(req.lyrics, req.instrumental)
           lm == LmInitialized(_llm_handler, llm_initialized)
           d == ResolveBefore(InitialDuration(req.duration), req.reference_audio,
                              req.src_audio, lm, req.prompt, lyr, req.instrumental)
       IN  /\ input_lyrics' = lyr
           /\ lm_initialized' = lm
           /\ resolved_duration_seconds' = d.seconds
           /\ duration_source' = d.source
           /\ estimated' = d.estimated
           /\ params' = [caption |-> req.prompt,
                         lyrics |-> lyr,
                         instrumental |-> req.instrumental,
                         duration |-> d.seconds,
                         reference_audio |->
                             IF HasAudio(req.reference_audio) THEN req.reference_audio ELSE "None",
                         src_audio |->
                             IF HasAudio(req.src_audio) THEN req.src_audio ELSE "None",
                         cot_duration |-> CotNone]
           /\ source_at_call' = d.source
    /\ pc' = "generate_music"
    /\ UNCHANGED <<gvars, req, result, remembered, evars, pvars>>

\* lines 425-433: generate_music returns, having left cot on params.
PipelineReturns(cot) ==
    /\ pc = "generate_music"
    /\ params' = [params EXCEPT !.cot_duration = cot]
    /\ pc' = "after_pipeline"
    /\ UNCHANGED <<gvars, req, input_lyrics, resolved_duration_seconds, duration_source,
                   lm_initialized, estimated, source_at_call, result, remembered, evars, pvars>>

\* generate_music raises: generate() propagates the exception.
PipelineRaises ==
    /\ pc = "generate_music"
    /\ pc' = "raised"
    /\ UNCHANGED <<gvars, req, input_lyrics, resolved_duration_seconds, duration_source,
                   lm_initialized, estimated, params, source_at_call, result,
                   remembered, evars, pvars>>

\* lines 435-467: late override, final fallback, the returned dict.
Finish ==
    /\ pc = "after_pipeline"
    /\ LET a == LateOverride(resolved_duration_seconds, duration_source, params.cot_duration)
           b == FinalFallback(a.seconds, a.source, req.prompt, input_lyrics, req.instrumental)
       IN  /\ resolved_duration_seconds' = b.seconds
           /\ duration_source' = b.source
           /\ result' = [success |-> TRUE,
                         resolved_duration_seconds |-> b.seconds,
                         duration_source |-> b.source,
                         lm_initialized |-> lm_initialized]
    /\ pc' = "returned"
    /\ UNCHANGED <<gvars, req, input_lyrics, lm_initialized, estimated, params,
                   source_at_call, remembered, evars, pvars>>

-----------------------------------------------------------------------------
(* Direct calls of the two text functions.  hint_out and est_out are <<>>  *)
(* before the call and hold the returned value after it.                   *)

ExtractHintCall ==
    /\ hint_out = <<>> /\ est_out = <<>>
    /\ \E text \in {arg_prompt, arg_prompt \o <<"\n">> \o arg_lyrics} :
          /\ hint_text' = text
          /\ hint_out' = <<_extract_duration_hint_seconds(text)>>
    /\ UNCHANGED <<gvars, cvars, remembered, pvars, arg_prompt, arg_lyrics, arg_instrumental,
                   est_hint, est_out>>

EstimateCall ==
    /\ hint_out = <<>> /\ est_out = <<>>
    /\ est_hint' = <<_extract_duration_hint_seconds(arg_prompt \o <<"\n">> \o arg_lyrics)>>
    /\ est_out' = <<_estimate_duration_seconds(arg_prompt, arg_lyrics, arg_instrumental)>>
    /\ UNCHANGED <<gvars, cvars, remembered, pvars, arg_prompt, arg_lyrics, arg_instrumental,
                   hint_text, hint_out>>

\* An observer notes one completed request, to compare a later one with it.
Remember ==
    /\ pc = "returned"
    /\ ~remembered.taken
    /\ remembered' = [taken |-> TRUE, req |-> req, lm |-> lm_initialized,
                      cot |-> params.cot_duration, result |-> result]
    /\ UNCHANGED <<gvars, cvars, evars, pvars>>

-----------------------------------------------------------------------------
(* preprocess_dataset.py: one run of main(), by what it writes to stdout   *)
(* and how it exits.                                                       *)

\* At most this many samples are in the dataset.
MaxSamples == 3
\* At most this many progress messages come from preprocess_to_tensors.
MaxProgress == 2

NoCounts == [labeled |-> 0, total |-> 0]
NoExit == [path |-> "running", status |-> None]

\* A line of print(...) without file=sys.stderr
Line(text) == [json |-> FALSE, text |-> text, labeled |-> 0, total |-> 0]

\* A line of print(json.dumps({"status": ..., "labeled": ..., "total": ...}))
Summary(status, counts) ==
    [json |-> TRUE, text |-> status, labeled |-> counts.labeled, total |-> counts.total]

\* if args.json: print(json.dumps(...))
WithSummary(out, json_flag, status, counts) ==
    IF json_flag THEN Append(out, Summary(status, counts)) ELSE out

\* sys.exit(1), or an exception that leaves main(): the interpreter writes
\* the traceback to stderr and exits with status 1.
Exit(path, status) == [path |-> path, status |-> status]

\* lines 21-26: the arguments are parsed.
ParseArgs(json_flag) ==
    /\ pre_pc = "not_run"
    /\ pre_json' = json_flag
    /\ pre_pc' = "check_dataset"
    /\ UNCHANGED <<gvars, cvars, remembered, evars, pre_counts, pre_stdout, pre_exit>>

\* lines 28-30
CheckDataset(exists) ==
    /\ pre_pc = "check_dataset"
    /\ IF exists
       THEN pre_pc' = "import" /\ UNCHANGED pre_exit
       ELSE pre_pc' = "exited" /\ pre_exit' = Exit("dataset_missing", 1)
    /\ UNCHANGED <<gvars, cvars, remembered, evars, pre_json, pre_counts, pre_stdout>>

\* lines 32-55: the import of DatasetBuilder, then the first line on stdout.
ImportBuilder(imported) ==
    /\ pre_pc = "import"
    /\ IF imported
       THEN /\ pre_stdout' = Append(pre_stdout, Line("Loading dataset"))
            /\ pre_pc' = "load"
            /\ UNCHANGED pre_exit
       ELSE /\ pre_pc' = "exited"
            /\ pre_exit' = Exit("import_failure", 1)
            /\ UNCHANGED pre_stdout
    /\ UNCHANGED <<gvars, cvars, remembered, evars, pre_json, pre_counts>>

\* lines 56-75: the dataset is read and counted; without labeled samples the
\* run ends here.
LoadDataset(labeled, total) ==
    /\ pre_pc = "load"
    /\ pre_counts' = [labeled |-> labeled, total |-> total]
    /\ IF labeled = 0
       THEN /\ pre_stdout' = WithSummary(Append(pre_stdout, Line("Dataset loaded")),
                                         pre_json, "error", pre_counts')
            /\ pre_pc' = "exited"
            /\ pre_exit' = Exit("no_labeled", 1)
       ELSE /\ pre_stdout' = Append(Append(pre_stdout, Line("Dataset loaded")),
                                    Line("Loading models"))
            /\ pre_pc' = "models"
            /\ UNCHANGED pre_exit
    /\ UNCHANGED <<gvars, cvars, remembered, evars, pre_json>>

\* lines 56-61: open, json.load or load_from_dict raises.
LoadDatasetRaises ==
    /\ pre_pc = "load"
    /\ pre_pc' = "exited"
    /\ pre_exit' = Exit("exception", 1)
    /\ UNCHANGED <<gvars, cvars, remembered, evars, pre_json, pre_counts, pre_stdout>>

\* lines 76-113: the pipeline is loaded, or the except branch reports.
LoadModels(loaded) ==
    /\ pre_pc = "models"
    /\ IF loaded
       THEN /\ pre_stdout' = Append(pre_stdout, Line("Preprocessing to"))
            /\ pre_pc' = "preprocess"
            /\ UNCHANGED pre_exit
       ELSE /\ pre_stdout' = WithSummary(pre_stdout, pre_json, "error", pre_counts)
            /\ pre_pc' = "exited"
            /\ pre_exit' = Exit("model_loading_failure", 1)
    /\ UNCHANGED <<gvars, cvars, remembered, evars, pre_json, pre_counts>>

\* lines 115-116: preprocess_to_tensors calls progress_cb.
Progress ==
    /\ pre_pc = "preprocess"
    /\ Cardinality({i \in 1..Len(pre_stdout) : pre_stdout[i] = Line("progress")})
           < MaxProgress
    /\ pre_stdout' = Append(pre_stdout, Line("progress"))
    /\ UNCHANGED <<gvars, cvars, remembered, evars, pre_pc, pre_json, pre_counts, pre_exit>>

\* lines 118-136: preprocess_to_tensors returns, main() returns.
PreprocessReturns ==
    /\ pre_pc = "preprocess"
    /\ pre_stdout' = WithSummary(Append(Append(pre_stdout, Line("Done")),
                                        Line("Output files")),
                                 pre_json, "complete", pre_counts)
    /\ pre_pc' = "exited"
    /\ pre_exit' = Exit("complete", 0)
    /\ UNCHANGED <<gvars, cvars, remembered, evars, pre_json, pre_counts>>

\* lines 118-123: preprocess_to_tensors raises.
PreprocessRaises ==
    /\ pre_pc = "preprocess"
    /\ pre_pc' = "exited"
    /\ pre_exit' = Exit("exception", 1)
    /\ UNCHANGED <<gvars, cvars, remembered, evars, pre_json, pre_counts, pre_stdout>>

-----------------------------------------------------------------------------
(* Input domains.                                                          *)

\* At most this many fragments make up a prompt of the text-function calls.
MaxPromptFrags == 2
\* At most this many section lines open the lyrics.
MaxSections == 2

RECURSIVE Texts(_, _)
\* The concatenations of at most n fragments.
Texts(frags, n) ==
    IF n = 0 THEN {<<>>}
    ELSE LET shorter == Texts(frags, n - 1)
         IN  shorter \cup {t \o f : t \in shorter, f \in frags}

\* n copies of w
Repeat(w, n) == [i \in 1..(n * Len(w)) |-> w[((i - 1) % Len(w)) + 1]]

\* The texts the inputs are made of, by what they spell.
TxtEpicCinematicAnthem == <<"e", "p", "i", "c", " ", "c", "i", "n", "e", "m", "a", "t", "i", "c", " ", "a", "n", "t", "h", "e", "m">>
TxtJingle == <<"j", "i", "n", "g", "l", "e">>
TxtAmbientLoop == <<"a", "m", "b", "i", "e", "n", "t", " ", "l", "o", "o", "p">>
Txt3c48 == <<"3", ":", "4", "8", " ">>
Txt0c05 == <<"0", ":", "0", "5", " ">>
Txt2Min30Sec == <<"2", " ", "m", "i", "n", " ", "3", "0", " ", "s", "e", "c", " ">>
Txt15MIN == <<"1", "5", " ", "M", "I", "N", " ">>
Txt90Sec == <<"9", "0", " ", "s", "e", "c", " ">>
Txt700Sec == <<"7", "0", "0", " ", "s", "e", "c", " ">>
Txt3c45 == <<"3", ":", "4", "5">>
TxtLa == <<"l", "a">>
TxtVerseLa90Sec == <<"[", "v", "e", "r", "s", "e", "]", "\n", "l", "a", " ", "l", "a", " ", "9", "0", " ", "s", "e", "c">>
TxtAbc == <<"a", "b", "c">>
Txt47 == <<"4", "7">>

PromptFrags == {TxtEpicCinematicAnthem, TxtJingle, TxtAmbientLoop, Txt3c48, Txt0c05,
                Txt2Min30Sec, Txt15MIN, Txt90Sec, Txt700Sec}
SectionLines == << <<"[", "v", "e", "r", "s", "e", "]", "\n">>,
                   <<" ", "[", "C", "h", "o", "r", "u", "s", "]", "\n">>,
                   <<"[", "b", "r", "i", "d", "g", "e", "\n">>,
                   <<"[", "O", "u", "t", "r", "o", "]", "\n">> >>

RECURSIVE SectionBlock(_)
SectionBlock(s) == IF s = 0 THEN <<>> ELSE SectionBlock(s - 1) \o SectionLines[s]

Filler == <<"l", "a", " ">>
LyricTails == {<<>>, Txt3c45}

EstPrompts == Texts(PromptFrags, MaxPromptFrags)
\* Lyrics of s section lines, w filler words and a tail.
LyricsOf(s, w, tail) == SectionBlock(s) \o Repeat(Filler, w) \o tail
TinyLyrics == {<<>>, TxtLa, Txt3c45}
ShortLyrics == {LyricsOf(s, w, tail) : s \in 0..MaxSections, w \in {0, 1, 30},
                                      tail \in LyricTails}
LongLyrics == {LyricsOf(s, w, <<>>) : s \in {0, 2}, w \in {100, 233, 530}}
\* Every prompt with tiny lyrics, and every one-fragment prompt with every
\* lyrics.
EstInputs == (EstPrompts \X TinyLyrics \X BOOLEAN)
                 \cup ((PromptFrags \cup {<<>>}) \X (ShortLyrics \cup LongLyrics) \X BOOLEAN)

ReqPrompts == {<<>>, TxtEpicCinematicAnthem, Txt3c48}
ReqLyrics == {<<>>, TxtVerseLa90Sec}
Requests == [prompt : ReqPrompts, lyrics : ReqLyrics, instrumental : BOOLEAN,
             duration : {-1, 0, 7, 700},
             reference_audio : {"None", "", "ref.wav"},
             src_audio : {"None", "src.wav"}]
CotOutcomes == {CotNone, CotFloat(-5), CotFloat(0), CotFloat(47),
                CotStr(TxtAbc), CotStr(Txt47)}

PairRequests == [prompt : {<<>>, Txt3c48}, lyrics : ReqLyrics, instrumental : BOOLEAN,
                 duration : {0, 7},
                 reference_audio : {"None", "", "ref.wav"},
                 src_audio : {"None"}]
PairCotOutcomes == {CotNone, CotFloat(47)}

-----------------------------------------------------------------------------
(* Specifications.                                                         *)

ProcessInit ==
    /\ _handler = "None"
    /\ _llm_handler = "None"
    /\ _lora_initialized = FALSE
    /\ _llm_init_attempted = FALSE
    /\ service_ready = FALSE
    /\ llm_initialized = FALSE
    /\ calls = NoCalls
    /\ pc = "idle"
    /\ req = NoReq
    /\ input_lyrics = <<>>
    /\ resolved_duration_seconds = 0
    /\ duration_source = ""
    /\ lm_initialized = FALSE
    /\ estimated = None
    /\ params = NoParams
    /\ source_at_call = ""
    /\ result = NoResult
    /\ remembered = NoNote
    /\ hint_text = <<>>
    /\ hint_out = <<>>
    /\ est_hint = <<>>
    /\ est_out = <<>>
    /\ pre_pc = "not_run"
    /\ pre_json = FALSE
    /\ pre_counts = NoCounts
    /\ pre_stdout = <<>>
    /\ pre_exit = NoExit

\* The process serving generate() requests.
Init ==
    /\ ProcessInit
    /\ arg_prompt = <<>>
    /\ arg_lyrics = <<>>
    /\ arg_instrumental = FALSE

Next ==
    \/ \E r \in Requests : GenerateCall(r)
    \/ GetHandlers
    \/ Resolve
    \/ \E cot \in CotOutcomes : PipelineReturns(cot)
    \/ PipelineRaises
    \/ Finish

Spec == Init /\ [][Next]_vars

\* The same process, with an observer comparing two of its requests.
PairNext ==
    \/ \E r \in PairRequests : GenerateCall(r)
    \/ GetHandlers
    \/ Resolve
    \/ \E cot \in PairCotOutcomes : PipelineReturns(cot)
    \/ PipelineRaises
    \/ Finish
    \/ Remember

PairSpec == Init /\ [][PairNext]_vars

\* One direct call of a text function on inputs drawn from EstInputs.
EstInit ==
    /\ ProcessInit
    /\ \E in \in EstInputs :
          /\ arg_prompt = in[1]
          /\ arg_lyrics = in[2]
          /\ arg_instrumental = in[3]

EstNext == ExtractHintCall \/ EstimateCall

EstSpec == EstInit /\ [][EstNext]_vars

\* One run of preprocess_dataset.py.
PreNext ==
    \/ \E json_flag \in BOOLEAN : ParseArgs(json_flag)
    \/ \E exists \in BOOLEAN : CheckDataset(exists)
    \/ \E imported \in BOOLEAN : ImportBuilder(imported)
    \/ \E total \in 0..MaxSamples : \E labeled \in 0..total : LoadDataset(labeled, total)
    \/ LoadDatasetRaises
    \/ \E loaded \in BOOLEAN : LoadModels(loaded)
    \/ Progress
    \/ PreprocessReturns
    \/ PreprocessRaises

PreSpec == Init /\ [][PreNext]_vars

-----------------------------------------------------------------------------
(* Properties of generate, checked under Spec.                             *)

\* C1: a call of generate with duration d > 0 hands d to the pipeline and
\* returns resolved_duration_seconds = d with duration_source "user", not
\* rounded and not clamped, whatever the audio arguments, the language-model
\* availability and the chain-of-thought duration the pipeline left behind.
UserDurationVerbatim ==
    req.duration > 0 =>
        /\ pc \in {"generate_music", "after_pipeline", "returned"}
              => params.duration = req.duration
        /\ pc = "returned"
              => /\ result.success
                 /\ result.resolved_duration_seconds = req.duration
                 /\ result.duration_source = "user"

\* A request with duration 700 (above every clamp), reference audio, an
\* initialized language model and a chain-of-thought duration of 47 returned.
UserDurationReturned ==
    /\ pc = "returned"
    /\ req.duration = 700
    /\ req.reference_audio = "ref.wav"
    /\ result.lm_initialized
    /\ params.cot_duration = CotFloat(47)
    /\ result.resolved_duration_seconds = 700

\* C2: when generate_music is entered the source is the one of the first
\* applicable rule in the order user, audio_inferred, lm_cot, heuristic; the
\* duration handed over is -1 exactly for audio_inferred and lm_cot and is
\* positive otherwise; the local estimate has been computed exactly when
\* there is no user value, no audio and no initialized language model.
ChainBeforePipeline ==
    pc = "generate_music" =>
        LET audio == \/ req.reference_audio \notin {"None", ""}
                     \/ req.src_audio \notin {"None", ""}
            lm == _llm_handler # "None" /\ llm_initialized
        IN  /\ source_at_call =
                   IF req.duration > 0 THEN "user"
                   ELSE IF audio THEN "audio_inferred"
                   ELSE IF lm THEN "lm_cot"
                   ELSE "heuristic"
            /\ req.duration > 0 => params.duration = req.duration
            /\ params.duration = -1 <=> source_at_call \in {"audio_inferred", "lm_cot"}
            /\ params.duration # -1 => params.duration > 0
            /\ estimated # None <=> (req.duration <= 0 /\ ~audio /\ ~lm)
            /\ estimated # None
                  => /\ params.duration = estimated
                     /\ estimated = _estimate_duration_seconds(
                                        req.prompt, input_lyrics, req.instrumental)

\* generate_music is entered for a request without duration that has both
\* source audio and an initialized language model: the audio rule applied.
AudioBeforeLanguageModel ==
    /\ pc = "generate_music"
    /\ req.duration <= 0
    /\ req.src_audio = "src.wav"
    /\ _llm_handler # "None" /\ llm_initialized
    /\ source_at_call = "audio_inferred"
    /\ params.duration = -1
    /\ estimated = None

\* C3: after generate_music returned, a duration that was unresolved at the
\* call (source audio_inferred or lm_cot, value -1) becomes the
\* chain-of-thought duration with source lm_cot when that is a positive
\* number, and otherwise the heuristic estimate with source heuristic; a
\* duration that was numeric at the call (source user or heuristic) is
\* returned as it was.
LateOverrideRule ==
    pc = "returned" =>
        LET cot == params.cot_duration
            number == IF cot.type = "float" THEN cot.num
                      ELSE IF cot.type = "str" /\ FloatOf(cot).ok THEN FloatOf(cot).val
                      ELSE 0
            unresolved == source_at_call \in {"audio_inferred", "lm_cot"}
        IN  /\ unresolved <=> params.duration = -1
            /\ ~unresolved => source_at_call \in {"user", "heuristic"}
            /\ unresolved /\ number > 0
                  => /\ result.resolved_duration_seconds = number
                     /\ result.duration_source = "lm_cot"
            /\ unresolved /\ ~(number > 0)
                  => /\ result.resolved_duration_seconds =
                            _estimate_duration_seconds(
                                req.prompt, input_lyrics, req.instrumental)
                     /\ result.duration_source = "heuristic"
            /\ ~unresolved
                  => /\ result.resolved_duration_seconds = params.duration
                     /\ result.duration_source = source_at_call

\* A request resolved as audio_inferred returned with the chain-of-thought
\* duration "47" of its pipeline call, relabelled lm_cot.
LateOverrideApplied ==
    /\ pc = "returned"
    /\ source_at_call = "audio_inferred"
    /\ params.cot_duration = CotStr(Txt47)
    /\ result.resolved_duration_seconds = 47
    /\ result.duration_source = "lm_cot"

\* C10: every result generate returns after the pipeline call has
\* resolved_duration_seconds > 0 and a duration_source among user,
\* audio_inferred, lm_cot and heuristic; neither "auto" nor -1 appears in it.
ReturnedDurationResolved ==
    result.success =>
        /\ pc = "returned"
        /\ result.resolved_duration_seconds > 0
        /\ result.resolved_duration_seconds # -1
        /\ result.duration_source \in {"user", "audio_inferred", "lm_cot", "heuristic"}
        /\ result.duration_source # "auto"

\* A request left to the language model returned after a pipeline call whose
\* chain-of-thought duration was -5: the final fallback resolved it.
FallbackAfterUselessCot ==
    /\ pc = "returned"
    /\ result.success
    /\ source_at_call = "lm_cot"
    /\ params.cot_duration = CotFloat(-5)
    /\ result.duration_source = "heuristic"
    /\ result.resolved_duration_seconds >= 30

-----------------------------------------------------------------------------
(* Properties of the two text functions, checked under EstSpec.            *)

\* C4: _estimate_duration_seconds returns a multiple of 5, within [10, 600]
\* when a duration hint is found in the text and within [30, 240] when none
\* is found; a returned result whose duration_source is heuristic has
\* resolved_duration_seconds in [10, 600].
EstimateBounds ==
    /\ est_out # <<>>
          => /\ est_out[1] % 5 = 0
             /\ est_hint[1] # None => est_out[1] \in 10..600
             /\ est_hint[1] = None => est_out[1] \in 30..240
    /\ result.success /\ result.duration_source = "heuristic"
          => result.resolved_duration_seconds \in 10..600

\* 530 lyric words without a hint: 530 / 2.35 + 18 is above 240, the
\* estimate returned is 240.
EstimateClampedAbove ==
    /\ est_out = <<240>>
    /\ est_hint = <<None>>
    /\ arg_lyrics = LyricsOf(0, 530, <<>>)
    /\ arg_prompt = <<>>

\* C5: _extract_duration_hint_seconds looks at the lower-cased text in three
\* tiers, MM:SS first, minute expressions second, bare second expressions
\* third, and returns the value of the leftmost match with a value in
\* [10, 600] of the first tier that has such a match: out-of-range matches
\* are passed over, a higher tier wins over an earlier match of a lower
\* tier, and there is no hint when no tier has an in-range match.
ExtractHintPriority ==
    /\ hint_out # <<>>
          => LET InRange(ms) == {i \in 1..Len(ms) : ms[i].val \in 10..600}
                 Pick(ms, S) == IF S = {} THEN None ELSE ms[SetMin(S)].val
                 Tier(ms) == Pick(ms, InRange(ms))
                 First(a, b, c) == IF a # None THEN a ELSE IF b # None THEN b ELSE c
                 Expected(t) == First(Tier(FindIter("mm:ss", t)),
                                      Tier(FindIter("minutes", t)),
                                      Tier(FindIter("seconds", t)))
             IN  hint_out[1] = Expected(Lower(hint_text))
    /\ hint_out # <<>> /\ hint_text = Txt0c05 \o Txt3c48 => hint_out[1] = 228
    /\ hint_out # <<>> /\ hint_text = Txt90Sec \o Txt3c48 => hint_out[1] = 228
    /\ hint_out # <<>> /\ hint_text = Txt0c05 \o Txt90Sec => hint_out[1] = 90
    /\ hint_out # <<>> /\ hint_text = Txt15MIN \o Txt2Min30Sec => hint_out[1] = 150
    /\ hint_out # <<>> /\ hint_text = Txt700Sec \o Txt0c05 => hint_out[1] = None
    /\ hint_out # <<>> /\ hint_text = <<>> => hint_out[1] = None

\* "90 sec 3:48 ": the MM:SS match, second in the text, is the hint.
HigherTierWins ==
    /\ hint_text = Txt90Sec \o Txt3c48
    /\ hint_out = <<228>>

\* C6: when a hint h is found in prompt and lyrics together,
\* _estimate_duration_seconds returns the multiple of 5 nearest to h,
\* clamped to [10, 600], whatever the lyric words, the section markers, the
\* instrumental flag and the prompt keywords; "3:45" gives 225 and
\* "2 min 30 sec" gives 150.
HintShortCircuits ==
    /\ est_out # <<>> /\ est_hint[1] # None
          => LET nearest == CHOOSE v \in 0..605 :
                                v % 5 = 0 /\ v - est_hint[1] \in -2..2
             IN  est_out[1] = Max(10, Min(600, nearest))
    /\ est_out # <<>> /\ arg_lyrics = Txt3c45
           /\ arg_prompt \in {<<>>, TxtJingle, TxtEpicCinematicAnthem, TxtAmbientLoop}
          => est_out[1] = 225
    /\ est_out # <<>> /\ arg_prompt = Txt2Min30Sec
           /\ (\A i \in 1..Len(arg_lyrics) : arg_lyrics[i] # ":")
          => est_out[1] = 150

\* An instrumental request whose prompt has "3:48" and the loop keyword:
\* the hint 228 gives 230.
HintBeatsKeywords ==
    /\ arg_prompt = Txt3c48 \o TxtAmbientLoop
    /\ arg_instrumental
    /\ est_hint = <<228>>
    /\ est_out = <<230>>

\* C7 as stated: without a hint the estimate is words / 2.35 + 18 +
\* 4 * sections for lyrics with words, else 95 (instrumental) or 75, minus 20
\* once for a short-form keyword, plus 30 once for a long-form keyword,
\* rounded to the nearest multiple of 5 and clamped to [30, 240].  The
\* numbers are kept as multiples of 1/47 (w / 2.35 = 20 * w / 47).
EstimateIsKeywordReference ==
    est_out # <<>> /\ est_hint[1] = None
        => LET words == LyricWords(arg_lyrics)
               base == IF words > 0
                       THEN 20 * words + 47 * (18 + 4 * SectionMarkers(arg_lyrics))
                       ELSE IF arg_instrumental THEN 47 * 95 ELSE 47 * 75
               short == \E k \in ShortKeywords : Contains(Lower(arg_prompt), k)
               long == \E k \in LongKeywords : Contains(Lower(arg_prompt), k)
               adjusted == base - (IF short THEN 47 * 20 ELSE 0)
                                + (IF long THEN 47 * 30 ELSE 0)
               rounded == 5 * ((2 * adjusted + 235) \div 470)
           IN  est_out[1] = Max(30, Min(240, rounded))

\* C7, amended: the same computation, with the estimate capped at 60 before
\* the rounding when the prompt contains "loop" and the lyrics have no
\* words; 235 lyric words with 2 section markers give 125 and the prompt
\* "epic cinematic anthem" without lyrics, not instrumental, gives 105.
EstimateIsReference ==
    /\ est_out # <<>> /\ est_hint[1] = None
          => LET words == LyricWords(arg_lyrics)
                 base == IF words > 0
                         THEN 20 * words + 47 * (18 + 4 * SectionMarkers(arg_lyrics))
                         ELSE IF arg_instrumental THEN 47 * 95 ELSE 47 * 75
                 short == \E k \in ShortKeywords : Contains(Lower(arg_prompt), k)
                 long == \E k \in LongKeywords : Contains(Lower(arg_prompt), k)
                 adjusted == base - (IF short THEN 47 * 20 ELSE 0)
                                  + (IF long THEN 47 * 30 ELSE 0)
                 capped == IF Contains(Lower(arg_prompt), LoopKeyword) /\ words = 0
                           THEN Min(adjusted, 47 * 60)
                           ELSE adjusted
                 rounded == 5 * ((2 * capped + 235) \div 470)
             IN  est_out[1] = Max(30, Min(240, rounded))
    /\ est_out # <<>> /\ arg_prompt = <<>> /\ arg_lyrics = LyricsOf(2, 233, <<>>)
          => /\ LyricWords(arg_lyrics) = 235
             /\ SectionMarkers(arg_lyrics) = 2
             /\ est_out[1] = 125
    /\ est_out # <<>> /\ arg_prompt = TxtEpicCinematicAnthem /\ arg_lyrics = <<>>
           /\ ~arg_instrumental
          => est_out[1] = 105

\* The estimate of 235 lyric words under 2 section markers was returned.
ReferenceExampleReturned ==
    /\ arg_prompt = <<>>
    /\ arg_lyrics = LyricsOf(2, 233, <<>>)
    /\ est_hint = <<None>>
    /\ est_out = <<125>>

\* C8: without a hint, a prompt containing "loop" and lyrics without words,
\* the estimate is capped at 60 after the keyword adjustments, so the result
\* is in [30, 60] whatever the flag and the other keywords (instrumental
\* "ambient loop" gives 60); with lyric words present "loop" changes
\* nothing.
LoopCapRule ==
    est_out # <<>> /\ est_hint[1] = None /\ Contains(Lower(arg_prompt), LoopKeyword)
        => LET words == LyricWords(arg_lyrics)
               base == IF words > 0
                       THEN 20 * words + 47 * (18 + 4 * SectionMarkers(arg_lyrics))
                       ELSE IF arg_instrumental THEN 47 * 95 ELSE 47 * 75
               short == \E k \in ShortKeywords : Contains(Lower(arg_prompt), k)
               long == \E k \in LongKeywords : Contains(Lower(arg_prompt), k)
               adjusted == base - (IF short THEN 47 * 20 ELSE 0)
                                + (IF long THEN 47 * 30 ELSE 0)
               Nearest5(x) == 5 * ((2 * x + 235) \div 470)
           IN  /\ words = 0
                     => /\ est_out[1] \in 30..60
                        /\ est_out[1] = Max(30, Nearest5(Min(adjusted, 47 * 60)))
               /\ words = 0 /\ arg_instrumental /\ arg_prompt = TxtAmbientLoop
                     => est_out[1] = 60
               /\ words > 0
                     => est_out[1] = Max(30, Min(240, Nearest5(adjusted)))

\* A prompt with long-form keywords and "loop", no lyrics: 75 + 30 is
\* capped, 60 is returned.
LoopCapAfterKeywords ==
    /\ arg_prompt = TxtEpicCinematicAnthem \o TxtAmbientLoop
    /\ arg_lyrics = <<>>
    /\ ~arg_instrumental
    /\ est_hint = <<None>>
    /\ est_out = <<60>>

-----------------------------------------------------------------------------
(* Property of two requests of one process, checked under PairSpec.        *)

\* C9: two requests of one process that agree on duration, prompt, lyrics,
\* instrumental flag, presence of reference or source audio, language-model
\* availability and the chain-of-thought duration of their pipeline calls
\* have the same resolved_duration_seconds and duration_source, whatever
\* ran before them.
SameInputsSameResolution ==
    LET Audio(r) == \/ r.reference_audio \notin {"None", ""}
                    \/ r.src_audio \notin {"None", ""}
    IN  /\ pc = "returned"
        /\ remembered.taken
        /\ remembered.req.duration = req.duration
        /\ remembered.req.prompt = req.prompt
        /\ remembered.req.lyrics = req.lyrics
        /\ remembered.req.instrumental = req.instrumental
        /\ Audio(remembered.req) = Audio(req)
        /\ remembered.lm = result.lm_initialized
        /\ remembered.cot = params.cot_duration
        => /\ remembered.result.resolved_duration_seconds =
                  result.resolved_duration_seconds
           /\ remembered.result.duration_source = result.duration_source

\* A request with reference_audio "" was noted and a later request of the
\* same process with reference_audio None and otherwise the same inputs
\* returned, both after a chain-of-thought duration of 47.
LaterRequestSameInputs ==
    /\ pc = "returned"
    /\ remembered.taken
    /\ remembered.req.reference_audio = ""
    /\ req = [remembered.req EXCEPT !.reference_audio = "None"]
    /\ req.duration = 0
    /\ remembered.lm = result.lm_initialized
    /\ remembered.cot = CotFloat(47)
    /\ params.cot_duration = CotFloat(47)
    /\ result.duration_source = "heuristic"

-----------------------------------------------------------------------------
(* Properties of the handler cache.                                        *)

\* C12: in one process initialize_service, the LoRA auto-load and the
\* language-model initialize are each run at most once; a language-model
\* initialization that was attempted (skipped and failed ones included) is
\* not retried; and once the handler global is set, every later call finds
\* the same handlers and the same language-model availability.  Checked
\* under PairSpec.
SetupAtMostOnce ==
    [][/\ calls.initialize_service <= 1 /\ calls'.initialize_service <= 1
       /\ calls.lora_autoload <= 1 /\ calls'.lora_autoload <= 1
       /\ calls.llm_initialize <= 1 /\ calls'.llm_initialize <= 1
       /\ _llm_init_attempted
             => /\ calls'.llm_initialize = calls.llm_initialize
                /\ llm_initialized' = llm_initialized
                /\ _llm_init_attempted'
       /\ _handler # "None"
             => /\ _handler' = _handler
                /\ _llm_handler' = _llm_handler
                /\ llm_initialized' = llm_initialized
                /\ calls' = calls]_vars

\* A second request returned in a process whose language-model
\* initialization had failed during the first: each setup step ran once and
\* both requests saw the language model unavailable.
SecondRequestAfterFailedLlm ==
    /\ pc = "returned"
    /\ remembered.taken
    /\ remembered.req # req
    /\ calls = [initialize_service |-> 1, lora_autoload |-> 1, llm_initialize |-> 1]
    /\ _llm_init_attempted
    /\ ~remembered.lm
    /\ ~result.lm_initialized

\* C13: whenever get_handlers returns normally, initialize_service has
\* completed on the handler returned and the language-model handler
\* returned is an LLMHandler, not None.  Checked under Spec.
HandlersReturnedInitialized ==
    pc = "resolve" => service_ready /\ _llm_handler = "LLMHandler"

-----------------------------------------------------------------------------
(* Property of instrumental requests, checked under Spec.                  *)

\* C14: for a call of generate with instrumental = true the pipeline gets
\* empty lyrics, and the estimate before the pipeline call and the one of
\* the final fallback are those of the prompt with empty lyrics: a hint or
\* words that only the lyrics have change nothing.
InstrumentalIgnoresLyrics ==
    req.instrumental =>
        /\ pc \in {"generate_music", "after_pipeline", "returned"}
              => /\ params.lyrics = <<>>
                 /\ params.instrumental
                 /\ estimated # None
                       => estimated = _estimate_duration_seconds(req.prompt, <<>>, TRUE)
        /\ pc = "returned" /\ result.duration_source = "heuristic"
              => result.resolved_duration_seconds =
                     _estimate_duration_seconds(req.prompt, <<>>, TRUE)
        /\ pc = "returned" /\ result.duration_source = "heuristic"
               /\ req.prompt = <<>>
              => result.resolved_duration_seconds = 95

\* An instrumental request without prompt whose lyrics say "90 sec" went
\* through the final fallback and returned 95.
InstrumentalFallbackReturned ==
    /\ pc = "returned"
    /\ req.instrumental
    /\ req.prompt = <<>>
    /\ req.lyrics = TxtVerseLa90Sec
    /\ source_at_call = "lm_cot"
    /\ result.duration_source = "heuristic"
    /\ result.resolved_duration_seconds = 95

-----------------------------------------------------------------------------
(* Property of preprocess_dataset.py, checked under PreSpec.               *)

\* C11: a run with --json ends with a JSON summary as the last line on
\* stdout on each of these exit paths: dataset file missing, ACE-Step import
\* failure, no labeled samples, model loading failure, successful completion.
LastLineIsSummary ==
    /\ pre_pc = "exited"
    /\ pre_json
    /\ pre_exit.path \in {"dataset_missing", "import_failure", "no_labeled",
                          "model_loading_failure", "complete"}
    => /\ pre_stdout # <<>>
       /\ pre_stdout[Len(pre_stdout)].json
====
